---------------------------- MODULE Spec2Model ----------------------------
(***************************************************************************)
(* dymoprint command line: main() of src/src/dymoprint/command_line.py as  *)
(* a state machine.  One run of main() walks the program counter pc        *)
(* through the statements of main in source order: argument checks, the    *)
(* content renderers (QR code, barcode, text, picture), the label          *)
(* compositor, the matrix transformer, and then either the preview branch  *)
(* or transport selection (device node / PyUSB) followed by printLabel.    *)
(*                                                                         *)
(* Bitmaps are modelled by their size (and, for the QR code, by the pixel  *)
(* blocks plotted into it); the packed byte stream of the rotated label is *)
(* modelled as the sequence of its byte positions, so that slicing it into *)
(* rows is the slicing the code performs.  Calls into collaborators the    *)
(* program does not define itself (PIL, pyusb, the file system) are        *)
(* recorded in the history variable ops and their results are drawn        *)
(* nondeterministically from the results the call can produce.             *)
(***************************************************************************)
EXTENDS Integers, Sequences, FiniteSets

(***************************************************************************)
(* Bounds of the model.                                                    *)
(***************************************************************************)
\* DymoLabeler._MAX_BYTES_PER_LINE is set in the DymoLabeler class, outside
\* command_line.py; main() only ever reads it.  The model is checked for a
\* small value of it.
MAX_BYTES_PER_LINE == 2
\* Largest number of module rows of a generated QR symbol (SpecQR).
MaxModules == 17
\* Largest number of text arguments on the command line.
MaxLines == 2

\* The numbers of module rows of the QR symbols generated in Spec: one
\* module, a few modules, as many modules as label rows, and one more.
QRSizes == {1, 3, MAX_BYTES_PER_LINE * 8, MAX_BYTES_PER_LINE * 8 + 1}
\* The pixel widths font.getsize reports for the widest text line.
TextWidths == {1, 2}
\* The numbers of modules of a rendered barcode.
BarcodeModules == {3}
\* The pixel widths of a picture file.
PictureWidths == {1, 3}
\* The pixel heights of a picture file: lower than the label, as high, higher.
PictureHeights == {MAX_BYTES_PER_LINE * 8 - 1, MAX_BYTES_PER_LINE * 8,
                   MAX_BYTES_PER_LINE * 16}
\* The values of -f: absent (0), and a count above the largest frame.
FrameCounts == {0, 5}

(***************************************************************************)
(* Program constants.                                                      *)
(***************************************************************************)
EACCES == 13
EBUSY == 16
SYNWAIT == 64
padding == 4
MAX_FRAME == 3
VERTICAL_MARGIN == 8

\* What dev.set_configuration() can do: 0 stands for no exception, the others
\* are the errno of the USBError raised (19, ENODEV, is "any other").
ConfigurationResults == {0, EACCES, EBUSY, 19}

(***************************************************************************)
(* Arithmetic helpers.                                                     *)
(***************************************************************************)
Min(a, b) == IF a <= b THEN a ELSE b

\* int(math.ceil(a / b)) for positive b.
CeilDiv(a, b) == (a + b - 1) \div b

RECURSIVE SumWidths(_)
SumWidths(bs) == IF bs = <<>> THEN 0 ELSE Head(bs).width + SumWidths(Tail(bs))

(***************************************************************************)
(* Content renderer.                                                       *)
(***************************************************************************)
\* labelheight = DymoLabeler._MAX_BYTES_PER_LINE * 8
labelheight == MAX_BYTES_PER_LINE * 8

\* QRCode(...).text(quiet_zone=1).split(): R lines of R characters "0"/"1".
\* The symbols drawn are the two checkerboards of each size, so that every
\* module position is "on" in one of them.
QRText(R, p) ==
    [i \in 1..R |-> [j \in 1..R |-> IF (i + j) % 2 = p THEN "1" ELSE "0"]]

qr_scale_ceil(qr) == CeilDiv(labelheight, Len(qr))

\* qr_scale = labelheight // len(qr_text)
qr_scale(qr) == labelheight \div Len(qr)

\* qr_offset = (labelheight - len(qr_text) * qr_scale) // 2
qr_offset(qr) == (labelheight - Len(qr) * qr_scale(qr)) \div 2

\* utils.scaling(pix, sc): the sc x sc pixels whose top-left corner is pix.
scaling(pix, sc) ==
    {<<pix[1] + i, pix[2] + j>> : i \in 0..(sc - 1), j \in 0..(sc - 1)}

\* The loop of lines 155-161: one labeldraw.point call per "1" character,
\* with i and j the 0-based row and column of the character.
QRPoints(qr) ==
    {[i |-> i, j |-> j,
      pix |-> scaling(<<j * qr_scale(qr), i * qr_scale(qr) + qr_offset(qr)>>,
                      qr_scale(qr))] :
        <<i, j>> \in {ij \in (0..(Len(qr) - 1)) \X (0..(Len(qr) - 1)) :
                        /\ ij[2] < Len(qr[ij[1] + 1])
                        /\ qr[ij[1] + 1][ij[2] + 1] = "1"}}

\* The options main() hands to code.render.
BarcodeOptions ==
    [font_size |-> 0, vertical_margin |-> VERTICAL_MARGIN,
     module_height |-> labelheight - 16, module_width |-> 2]

\* BarcodeImageWriter: the image is the module height plus the vertical
\* margin above and below it.
BarcodeHeight(opts) == 2 * opts.vertical_margin + opts.module_height

\* fontoffset: 0 without -f, else min(args.f, 3).  f = 0 stands for None.
fontoffset(f) == IF f = 0 THEN 0 ELSE Min(f, MAX_FRAME)

\* labelwidth of the text bitmap, from the widest line's rendered width.
TextWidth(widest, f) == widest + fontoffset(f) * 2

\* Lines 218-222: the size of the picture after the optional thumbnail call.
\* Image.thumbnail is asked for (ceil(width * ratio), labelheight) with
\* ratio = labelheight / height; both requested sides are within the image
\* and in its proportion, so that is the resulting size.  A picture that is
\* not higher than the label keeps its size.
PictureSize(w, h) ==
    IF h > labelheight
    THEN [width |-> CeilDiv(w * labelheight, h), height |-> labelheight]
    ELSE [width |-> w, height |-> h]

(***************************************************************************)
(* Label compositor.                                                       *)
(***************************************************************************)
ComposedHeightLast(bs) == bs[Len(bs)].height

\* Height of the composed label for more than one bitmap: bitmaps[0].height.
ComposedHeight(bs) == bs[1].height

\* sum(b.width for b in bitmaps) + padding * (len(bitmaps) - 1)
ComposedWidth(bs) == SumWidths(bs) + padding * (Len(bs) - 1)

\* The paste loop of lines 234-237: the offset of the k-th paste.
PasteOffset(bs, k) == SumWidths(SubSeq(bs, 1, k - 1)) + padding * (k - 1)

\* labelbitmap as lines 225-239 build it.
Compose(bs) ==
    IF Len(bs) > 1
    THEN [width |-> ComposedWidth(bs), height |-> ComposedHeight(bs),
          parts |-> [k \in 1..Len(bs) |->
                       [offset |-> PasteOffset(bs, k), width |-> bs[k].width,
                        height |-> bs[k].height, kind |-> bs[k].kind]]]
    ELSE [width |-> bs[1].width, height |-> bs[1].height,
          parts |-> <<[offset |-> 0, width |-> bs[1].width,
                       height |-> bs[1].height, kind |-> bs[1].kind]>>]

(***************************************************************************)
(* Matrix transformer.                                                     *)
(***************************************************************************)
\* Image.transpose(ROTATE_270): width and height change places.
Rotate270(b) == [width |-> b.height, height |-> b.width]

\* Image.tobytes() of a mode "1" image: every pixel row is packed into
\* ceil(width / 8) bytes, row after row.  A byte is named by its position.
ToBytes(b) == [n \in 1..(b.height * CeilDiv(b.width, 8)) |-> n]

\* labelstreamrowlength = int(math.ceil(labelbitmap.height / 8))
labelstreamrowlength(b) == CeilDiv(b.height, 8)

\* The check of line 245.
MatrixInconsistent(stream, b) ==
    (Len(stream) \div labelstreamrowlength(b)) # b.width

\* An off-by-one slice: every row loses its last byte.
labelrows_short(stream, rowlen) ==
    [k \in 1..CeilDiv(Len(stream), rowlen) |->
        SubSeq(stream, (k - 1) * rowlen + 1,
               Min((k - 1) * rowlen + rowlen - 1, Len(stream)))]

\* labelstream[i : i + rowlen] for i in range(0, len(labelstream), rowlen)
labelrows(stream, rowlen) ==
    [k \in 1..CeilDiv(Len(stream), rowlen) |->
        SubSeq(stream, (k - 1) * rowlen + 1,
               Min((k - 1) * rowlen + rowlen, Len(stream)))]

(***************************************************************************)
(* Transport selection: the decisions main() takes.                        *)
(***************************************************************************)
PreviewModeNoImagemagick(a) == a.preview \/ a.preview_inverted

\* args.preview or args.preview_inverted or args.imagemagick
PreviewMode(a) == a.preview \/ a.preview_inverted \/ a.imagemagick

\* Lines 265-268: dev, from DEV_NODE or else from getDeviceFile.
DeviceFile(node, found) == IF node = "" THEN found ELSE node

UseDeviceFileInverted(d) == d = ""

\* Line 270: if dev.
UseDeviceFile(d) == d # ""

ConfigurationErrorCatchAll(errno) ==
    IF errno = EACCES THEN "raise RuntimeError" ELSE "pass"

\* The except clause of lines 292-299.
ConfigurationError(errno) ==
    IF errno = EACCES THEN "raise RuntimeError"
    ELSE IF errno = EBUSY THEN "pass"
    ELSE "raise"

EndpointsMissingBoth(eout, ein) == eout = "None" /\ ein = "None"

\* not devout or not devin
EndpointsMissing(eout, ein) == eout = "None" \/ ein = "None"

(***************************************************************************)
(* State.                                                                  *)
(***************************************************************************)
VARIABLES
    pc,           \* position in main(); "exit" once the run has ended
    outcome,      \* "running", "returned", or the error that ended the run
    args,         \* the parsed flags main() reads more than once
    labeltext,    \* number of text arguments still in labeltext
    USE_QR,       \* constants.USE_QR
    DEV_NODE,     \* constants.DEV_NODE ("" when not configured)
    qr_text,      \* the QR symbol's text matrix
    qr_points,    \* the labeldraw.point calls of the QR renderer
    bitmaps,      \* the list of content bitmaps
    labelbitmap,  \* the composed label
    labelmatrix,  \* the rows handed to printLabel
    devfile,      \* what getDeviceFile returned ("unasked" if not called)
    dev,          \* "" (falsy), a device node path, "usbdev" or "None"
    devout,       \* "unset", "file", "ep_out" or "None"
    devin,        \* "unset", "file", "ep_in" or "None"
    synwait,      \* {} for None, {64} for 64
    handle,       \* state of the opened device node: "none", "open", "closed"
    intf,         \* "unset", "intf" or "None"
    conf,         \* errno of set_configuration: -1 not called, 0 no error
    lm,           \* the arguments DymoLabeler was constructed with
    printed,      \* the printLabel calls
    ops           \* the collaborator operations performed so far

vars == <<pc, outcome, args, labeltext, USE_QR, DEV_NODE, qr_text, qr_points,
          bitmaps, labelbitmap, labelmatrix, devfile, dev, devout, devin, synwait,
          handle, intf, conf, lm, printed, ops>>

render == <<qr_text, qr_points, bitmaps, labelbitmap, labelmatrix>>

transport == <<devfile, dev, devout, devin, synwait, handle, intf, conf, lm, printed>>

config == <<args, USE_QR, DEV_NODE>>

NoBitmap == [width |-> 0, height |-> 0, parts |-> <<>>]

Init ==
    /\ pc = "font"
    /\ outcome = "running"
    /\ args \in [qr : BOOLEAN, c : BOOLEAN, preview : BOOLEAN,
                 preview_inverted : BOOLEAN, imagemagick : BOOLEAN]
    /\ labeltext \in 1..MaxLines
    /\ USE_QR \in BOOLEAN
    /\ DEV_NODE \in {"", "/dev/hidraw0"}
    /\ qr_text = <<>>
    /\ qr_points = {}
    /\ bitmaps = <<>>
    /\ labelbitmap = NoBitmap
    /\ labelmatrix = <<>>
    /\ devfile = "unasked"
    /\ dev = ""
    /\ devout = "unset"
    /\ devin = "unset"
    /\ synwait = {}
    /\ handle = "none"
    /\ intf = "unset"
    /\ conf = -1
    /\ lm = <<>>
    /\ printed = <<>>
    /\ ops = {}

\* utils.die(message): the message goes to standard error and the process
\* exits with a non-zero status.  An uncaught exception ends the run alike.
Terminate(how) ==
    /\ pc' = "exit"
    /\ outcome' = how

(***************************************************************************)
(* main(), lines 116-131: the font override and the symbol flags.          *)
(***************************************************************************)
\* Lines 120-124.  args.u is read here only: absent, an existing file, or a
\* path os.path.isfile rejects.
CheckFont ==
    /\ pc = "font"
    /\ \E u \in {"None", "file", "missing"} :
          IF u = "missing"
          THEN Terminate("die: font file not found")
          ELSE /\ pc' = "symbol_args"
               /\ UNCHANGED outcome
    /\ UNCHANGED <<config, labeltext, render, transport, ops>>

\* Lines 127-131.
CheckSymbolArgs ==
    /\ pc = "symbol_args"
    /\ IF args.qr /\ ~USE_QR
       THEN Terminate("die: e_qrcode")
       ELSE IF args.c /\ args.qr
            THEN Terminate("die: both QR and barcode")
            ELSE /\ pc' = "symbol"
                 /\ UNCHANGED outcome
    /\ UNCHANGED <<config, labeltext, render, transport, ops>>

(***************************************************************************)
(* Content renderer, lines 135-223.                                        *)
(***************************************************************************)
\* Lines 135-163.  The first text argument is popped and encoded; the symbol
\* generated for it is drawn from the symbols whose number of rows is in
\* Sizes.
RenderQR(Sizes) ==
    /\ pc = "symbol"
    /\ args.qr
    /\ \E R \in Sizes, p \in 0..1 :
          LET qr == QRText(R, p) IN
          /\ qr_text' = qr
          /\ IF qr_scale(qr) = 0
             THEN /\ Terminate("die: QR code too fine")
                  /\ UNCHANGED <<qr_points, bitmaps>>
             ELSE /\ qr_points' = QRPoints(qr)
                  /\ bitmaps' = Append(bitmaps,
                                       [kind |-> "qr", width |-> labelheight,
                                        height |-> labelheight])
                  /\ pc' = "text"
                  /\ UNCHANGED outcome
    /\ labeltext' = labeltext - 1
    /\ UNCHANGED <<config, labelbitmap, labelmatrix, transport, ops>>

\* Lines 165-178.
RenderBarcode ==
    /\ pc = "symbol"
    /\ ~args.qr
    /\ args.c
    /\ \E w \in BarcodeModules :
          bitmaps' = Append(bitmaps,
                            [kind |-> "barcode",
                             width |-> w * BarcodeOptions.module_width,
                             height |-> BarcodeHeight(BarcodeOptions)])
    /\ labeltext' = labeltext - 1
    /\ pc' = "text"
    /\ UNCHANGED <<outcome, config, qr_text, qr_points, labelbitmap,
                   labelmatrix, transport, ops>>

\* Neither -qr nor -c.
NoSymbol ==
    /\ pc = "symbol"
    /\ ~args.qr
    /\ ~args.c
    /\ pc' = "text"
    /\ UNCHANGED <<outcome, config, labeltext, render, transport, ops>>

\* Lines 180-213.  args.f is read here only (0 stands for None); widest is
\* the largest font.getsize(line)[0].  The frame and the text lines drawn
\* into the bitmap change its pixels, not its size.
RenderText ==
    /\ pc = "text"
    /\ IF labeltext > 0
       THEN \E f \in FrameCounts, widest \in TextWidths :
               bitmaps' = Append(bitmaps,
                                 [kind |-> "text",
                                  width |-> TextWidth(widest, f),
                                  height |-> labelheight])
       ELSE UNCHANGED bitmaps
    /\ pc' = "picture"
    /\ UNCHANGED <<outcome, config, labeltext, qr_text, qr_points,
                   labelbitmap, labelmatrix, transport, ops>>

\* Lines 215-223, without -p.
NoPicture ==
    /\ pc = "picture"
    /\ pc' = "compose"
    /\ UNCHANGED <<outcome, config, labeltext, render, transport, ops>>

\* Lines 215-223, with -p: the picture file is w x h pixels.
RenderPicture ==
    /\ pc = "picture"
    /\ \E w \in PictureWidths, h \in PictureHeights :
          bitmaps' = Append(bitmaps,
                            [kind |-> "picture",
                             width |-> PictureSize(w, h).width,
                             height |-> PictureSize(w, h).height])
    /\ pc' = "compose"
    /\ UNCHANGED <<outcome, config, labeltext, qr_text, qr_points,
                   labelbitmap, labelmatrix, transport, ops>>

(***************************************************************************)
(* Label compositor, lines 225-239.                                        *)
(***************************************************************************)
ComposeLabel ==
    /\ pc = "compose"
    /\ labelbitmap' = Compose(bitmaps)
    /\ pc' = "matrix"
    /\ UNCHANGED <<outcome, config, labeltext, qr_text, qr_points, bitmaps,
                   labelmatrix, transport, ops>>

(***************************************************************************)
(* Matrix transformer, lines 241-251.                                      *)
(***************************************************************************)
Transform ==
    /\ pc = "matrix"
    /\ LET labelstream == ToBytes(Rotate270(labelbitmap)) IN
       IF MatrixInconsistent(labelstream, labelbitmap)
       THEN /\ Terminate("die: internal problem")
            /\ UNCHANGED labelmatrix
       ELSE /\ labelmatrix' =
                 labelrows(labelstream, labelstreamrowlength(labelbitmap))
            /\ pc' = "output"
            /\ UNCHANGED outcome
    /\ UNCHANGED <<config, labeltext, qr_text, qr_points, bitmaps,
                   labelbitmap, transport, ops>>

(***************************************************************************)
(* Preview, lines 254-262.                                                 *)
(***************************************************************************)
Preview ==
    /\ pc = "output"
    /\ PreviewMode(args)
    /\ ops' = ops
              \cup (IF args.preview \/ args.preview_inverted
                    THEN {"image_to_unicode"} ELSE {})
              \cup (IF args.imagemagick THEN {"show"} ELSE {})
    /\ Terminate("returned")
    /\ UNCHANGED <<config, labeltext, render, transport>>

(***************************************************************************)
(* Transport selection, lines 264-322.                                     *)
(***************************************************************************)
\* Lines 265-268: getDeviceFile is asked only when DEV_NODE is not set.
GetDevice ==
    /\ pc = "output"
    /\ ~PreviewMode(args)
    /\ IF DEV_NODE = ""
       THEN \E found \in {"", "/dev/usb/hiddev0"} :
               /\ devfile' = found
               /\ dev' = DeviceFile(DEV_NODE, found)
               /\ ops' = ops \cup {"getDeviceFile"}
       ELSE /\ dev' = DeviceFile(DEV_NODE, "")
            /\ UNCHANGED <<devfile, ops>>
    /\ pc' = "select"
    /\ UNCHANGED <<outcome, config, labeltext, render, devout, devin,
                   synwait, handle, intf, conf, lm, printed>>

\* Lines 270-274: open(dev, "rb+") succeeds, or raises an IOError that
\* nothing in main() catches.
OpenDevice ==
    /\ pc = "select"
    /\ UseDeviceFile(dev)
    /\ ops' = ops \cup {"open"}
    /\ \E opened \in BOOLEAN :
          IF opened
          THEN /\ handle' = "open"
               /\ devout' = "file"
               /\ devin' = "file"
               /\ synwait' = {}
               /\ pc' = "endpoints_check"
               /\ UNCHANGED outcome
          ELSE /\ Terminate("IOError")
               /\ UNCHANGED <<handle, devout, devin, synwait>>
    /\ UNCHANGED <<config, labeltext, render, devfile, dev, intf, conf, lm, printed>>

\* Lines 276-288.
FindUsbDevice ==
    /\ pc = "select"
    /\ ~UseDeviceFile(dev)
    /\ synwait' = {SYNWAIT}
    /\ ops' = ops \cup {"usb.core.find"}
    /\ \E found \in {"None", "usbdev"} :
          /\ dev' = found
          /\ IF found = "None"
             THEN Terminate("die: device not found")
             ELSE /\ pc' = "set_configuration"
                  /\ UNCHANGED outcome
    /\ UNCHANGED <<config, labeltext, render, devfile, devout, devin, handle, intf,
                   conf, lm, printed>>

\* Lines 290-299.
SetConfiguration ==
    /\ pc = "set_configuration"
    /\ ops' = ops \cup {"set_configuration"}
    /\ \E errno \in ConfigurationResults :
          /\ conf' = errno
          /\ IF errno = 0 \/ ConfigurationError(errno) = "pass"
             THEN /\ pc' = "interface"
                  /\ UNCHANGED outcome
             ELSE IF ConfigurationError(errno) = "raise RuntimeError"
                  THEN Terminate("RuntimeError: Access denied")
                  ELSE Terminate("USBError")
    /\ UNCHANGED <<config, labeltext, render, devfile, dev, devout, devin, synwait,
                   handle, intf, lm, printed>>

\* Lines 301-304: find_descriptor returns the interface or None, and
\* intf.bInterfaceNumber of None raises AttributeError.
FindInterface ==
    /\ pc = "interface"
    /\ ops' = ops \cup {"find_descriptor(interface)"}
    /\ \E found \in {"None", "intf"} :
          /\ intf' = found
          /\ IF found = "None"
             THEN Terminate("AttributeError")
             ELSE /\ pc' = "kernel_driver"
                  /\ UNCHANGED outcome
    /\ UNCHANGED <<config, labeltext, render, devfile, dev, devout, devin, synwait,
                   handle, conf, lm, printed>>

\* Lines 304-305.
DetachKernelDriver ==
    /\ pc = "kernel_driver"
    /\ \E active \in BOOLEAN :
          ops' = ops \cup {"is_kernel_driver_active"}
                     \cup (IF active THEN {"detach_kernel_driver"} ELSE {})
    /\ pc' = "endpoints"
    /\ UNCHANGED <<outcome, config, labeltext, render, transport>>

\* Lines 306-319: each find_descriptor returns an endpoint or None.
FindEndpoints ==
    /\ pc = "endpoints"
    /\ ops' = ops \cup {"find_descriptor(OUT)", "find_descriptor(IN)"}
    /\ devout' \in {"ep_out", "None"}
    /\ devin' \in {"ep_in", "None"}
    /\ pc' = "endpoints_check"
    /\ UNCHANGED <<outcome, config, labeltext, render, devfile, dev, synwait, handle,
                   intf, conf, lm, printed>>

\* Lines 321-322.
CheckEndpoints ==
    /\ pc = "endpoints_check"
    /\ IF EndpointsMissing(devout, devin)
       THEN Terminate("die: device not found")
       ELSE /\ pc' = "labeler"
            /\ UNCHANGED outcome
    /\ UNCHANGED <<config, labeltext, render, transport, ops>>

(***************************************************************************)
(* Print session, lines 324-334.                                           *)
(***************************************************************************)
\* Lines 325-328: the constructor returns, or raises the IOError the except
\* clause turns into die(access_error(dev)).
CreateLabeler ==
    /\ pc = "labeler"
    /\ ops' = ops \cup {"DymoLabeler"}
    /\ \E ioerror \in BOOLEAN :
          IF ioerror
          THEN /\ Terminate("die: access_error")
               /\ UNCHANGED lm
          ELSE /\ lm' = <<[devout |-> devout, devin |-> devin,
                           synwait |-> synwait]>>
               /\ pc' = "print"
               /\ UNCHANGED outcome
    /\ UNCHANGED <<config, labeltext, render, devfile, dev, devout, devin, synwait,
                   handle, intf, conf, printed>>

\* Lines 330-334.  args.m is read here only; {} stands for no margin
\* argument.  main() returns after printLabel.
PrintLabel ==
    /\ pc = "print"
    /\ ops' = ops \cup {"printLabel"}
    /\ \E m \in {{}, {0}} :
          printed' = Append(printed, [matrix |-> labelmatrix, margin |-> m])
    /\ Terminate("returned")
    /\ UNCHANGED <<config, labeltext, render, devfile, dev, devout, devin, synwait,
                   handle, intf, conf, lm>>

Next ==
    \/ CheckFont
    \/ CheckSymbolArgs
    \/ RenderQR(QRSizes)
    \/ RenderBarcode
    \/ NoSymbol
    \/ RenderText
    \/ NoPicture
    \/ RenderPicture
    \/ ComposeLabel
    \/ Transform
    \/ Preview
    \/ GetDevice
    \/ OpenDevice
    \/ FindUsbDevice
    \/ SetConfiguration
    \/ FindInterface
    \/ DetachKernelDriver
    \/ FindEndpoints
    \/ CheckEndpoints
    \/ CreateLabeler
    \/ PrintLabel

Spec == Init /\ [][Next]_vars

(***************************************************************************)
(* The rendering pipeline on its own: the runs of main() with -qr and      *)
(* --preview, for QR symbols of every size up to MaxModules.               *)
(***************************************************************************)
InitQR ==
    /\ Init
    /\ args = [qr |-> TRUE, c |-> FALSE, preview |-> TRUE,
               preview_inverted |-> FALSE, imagemagick |-> FALSE]
    /\ USE_QR
    /\ DEV_NODE = ""

NextQR ==
    \/ CheckFont
    \/ CheckSymbolArgs
    \/ RenderQR(1..MaxModules)
    \/ RenderText
    \/ NoPicture
    \/ RenderPicture
    \/ ComposeLabel
    \/ Transform
    \/ Preview

SpecQR == InitQR /\ [][NextQR]_vars

(***************************************************************************)
(* Properties.                                                             *)
(***************************************************************************)
USBOps ==
    {"usb.core.find", "set_configuration", "find_descriptor(interface)",
     "is_kernel_driver_active", "detach_kernel_driver",
     "find_descriptor(OUT)", "find_descriptor(IN)"}

AfterConfigurationOps ==
    {"find_descriptor(interface)", "is_kernel_driver_active",
     "detach_kernel_driver", "find_descriptor(OUT)", "find_descriptor(IN)",
     "DymoLabeler", "printLabel"}

TransportPcs ==
    {"select", "set_configuration", "interface", "kernel_driver",
     "endpoints", "endpoints_check", "labeler", "print"}

NodeAvailable == DEV_NODE # "" \/ devfile \notin {"unasked", ""}

\* C1: transport selection determinism.  In a run that reaches transport
\* selection with a device node available (DEV_NODE configured, or
\* getDeviceFile returning a path) no USB operation is ever performed, and
\* once open() has returned the transport is the FileTransport: the one
\* opened handle is both devout and devin, synwait is None, and that is what
\* DymoLabeler is constructed with.
C1_FileTransportNoUsb ==
    (NodeAvailable /\ (pc \in TransportPcs \/ "open" \in ops)) =>
        /\ ops \cap USBOps = {}
        /\ pc # "set_configuration"
        /\ ("open" \in ops /\ outcome # "IOError") =>
              /\ handle = "open"
              /\ devout = "file"
              /\ devin = devout
              /\ synwait = {}
        /\ lm # <<>> =>
              lm[1] = [devout |-> "file", devin |-> "file", synwait |-> {}]

C1_Witness ==
    /\ DEV_NODE = ""
    /\ devfile = "/dev/usb/hiddev0"
    /\ "printLabel" \in ops
    /\ lm # <<>>
    /\ handle = "open"

\* C2: on the USB path, when set_configuration fails, selection continues
\* if and only if the failure is resource-busy (errno 16): then the
\* interface lookup follows and both endpoints are looked up; a permission
\* failure (errno 13) ends the run with the access-denied error, any other
\* failure ends it with the USBError itself, and in these two cases no
\* interface lookup, kernel-driver detach, endpoint lookup, labeler
\* construction or printLabel call follows.
C2_BusyIsTheOnlySwallowedFailure ==
    /\ conf = 16 =>
          /\ outcome \notin {"USBError", "RuntimeError: Access denied"}
          /\ pc = "interface" \/ "find_descriptor(interface)" \in ops
          /\ (intf = "intf" /\ pc \notin {"kernel_driver", "endpoints"}) =>
                /\ {"find_descriptor(OUT)", "find_descriptor(IN)"} \subseteq ops
                /\ devout # "unset"
                /\ devin # "unset"
    /\ conf = 13 =>
          /\ pc = "exit"
          /\ outcome = "RuntimeError: Access denied"
          /\ ops \cap AfterConfigurationOps = {}
    /\ conf \notin {-1, 0, 13, 16} =>
          /\ pc = "exit"
          /\ outcome = "USBError"
          /\ ops \cap AfterConfigurationOps = {}

C2_Witness ==
    /\ conf = 16
    /\ devout = "ep_out"
    /\ devin = "ep_in"
    /\ "printLabel" \in ops
    /\ outcome = "returned"

\* C3: in every run in which the device node was opened, the handle has
\* been closed when the run ends.
C3_HandleClosedAtExit ==
    (pc = "exit" /\ handle # "none") => handle = "closed"

\* C4: when open() of the device node fails with an I/O error, the run ends
\* with die(access_error(dev)) and not with the I/O error itself.
C4_OpenFailureIsAccessError ==
    (pc = "exit" /\ "open" \in ops /\ handle = "none") =>
        outcome = "die: access_error"

\* C5: once the matrix transformer has run on a label of width W and height
\* H, either the run has ended with the matrix-consistency error and no
\* matrix exists, or the matrix has exactly W rows of exactly ceil(H/8)
\* bytes each, the rows being consecutive slices of the byte stream.
C5_MatrixRows ==
    (labelbitmap # NoBitmap /\ pc # "matrix") =>
        \/ /\ outcome = "die: internal problem"
           /\ labelmatrix = <<>>
           /\ printed = <<>>
        \/ /\ outcome # "die: internal problem"
           /\ Len(labelmatrix) = labelbitmap.width
           /\ \A k \in 1..Len(labelmatrix) :
                 LET rowlen == (labelbitmap.height + 7) \div 8 IN
                 /\ Len(labelmatrix[k]) = rowlen
                 /\ \A b \in 1..Len(labelmatrix[k]) :
                       labelmatrix[k][b] = (k - 1) * rowlen + b
           /\ \A n \in 1..Len(printed) : printed[n].matrix = labelmatrix

C5_Witness ==
    /\ Len(bitmaps) = 3
    /\ Len(labelmatrix) > 8
    /\ Len(labelmatrix[Len(labelmatrix)]) = MAX_BYTES_PER_LINE
    /\ printed # <<>>

MaxContentHeight ==
    CHOOSE h \in {bitmaps[k].height : k \in 1..Len(bitmaps)} :
        \A k \in 1..Len(bitmaps) : bitmaps[k].height <= h

\* C6: the composed label of n >= 1 content bitmaps is as high as the
\* highest of them and as wide as the sum of their widths plus 4 x (n-1);
\* a single bitmap passes through unchanged; for n > 1 the i-th bitmap is
\* pasted at the sum over the previous bitmaps of (width + 4), so that
\* consecutive pasted regions are exactly 4 columns apart and the last one
\* ends at the right edge.
C6_Composition ==
    labelbitmap # NoBitmap =>
        LET n == Len(bitmaps) IN
        /\ n >= 1
        /\ labelbitmap.height = MaxContentHeight
        /\ labelbitmap.width = SumWidths(bitmaps) + 4 * (n - 1)
        /\ Len(labelbitmap.parts) = n
        /\ n = 1 =>
              /\ labelbitmap.width = bitmaps[1].width
              /\ labelbitmap.height = bitmaps[1].height
              /\ labelbitmap.parts[1].offset = 0
        /\ \A k \in 1..n :
              /\ labelbitmap.parts[k].width = bitmaps[k].width
              /\ labelbitmap.parts[k].kind = bitmaps[k].kind
              /\ labelbitmap.parts[k].height <= labelbitmap.height
              /\ labelbitmap.parts[k].offset =
                    SumWidths([m \in 1..(k - 1) |->
                                 [width |-> bitmaps[m].width + 4]])
              /\ k < n =>
                    labelbitmap.parts[k + 1].offset =
                        labelbitmap.parts[k].offset
                        + labelbitmap.parts[k].width + 4
              /\ k = n =>
                    labelbitmap.parts[k].offset + labelbitmap.parts[k].width
                        = labelbitmap.width

C6_Witness ==
    /\ labelbitmap # NoBitmap
    /\ Len(bitmaps) = 3
    /\ bitmaps[3].kind = "picture"
    /\ bitmaps[3].height < bitmaps[1].height
    /\ labelbitmap.parts[3].offset > 8

\* C7: for a QR symbol of R module rows and label height L, if L // R = 0
\* the run ends with the too-fine error and no QR bitmap is appended; if
\* L // R = k > 0 then, with offset = (L - R*k) // 2, every "on" module at
\* row i, column j is plotted as the k x k block whose top-left corner is
\* (j*k, i*k + offset), the block lies inside the L x L bitmap, and nothing
\* is plotted for an "off" module.
C7_QRBlocks ==
    qr_text # <<>> =>
        LET R == Len(qr_text)
            L == MAX_BYTES_PER_LINE * 8
            k == L \div R
            offset == (L - R * k) \div 2
        IN  IF k = 0
            THEN /\ pc = "exit"
                 /\ outcome = "die: QR code too fine"
                 /\ bitmaps = <<>>
                 /\ qr_points = {}
            ELSE /\ outcome # "die: QR code too fine"
                 /\ bitmaps # <<>>
                 /\ bitmaps[1] = [kind |-> "qr", width |-> L, height |-> L]
                 /\ \A i \in 0..(R - 1), j \in 0..(R - 1) :
                       qr_text[i + 1][j + 1] = "1" =>
                          /\ j * k \in 0..(L - 1)
                          /\ i * k + offset \in 0..(L - 1)
                          /\ j * k + k - 1 \in 0..(L - 1)
                          /\ i * k + offset + k - 1 \in 0..(L - 1)
                          /\ [i |-> i, j |-> j,
                              pix |-> {<<x, y>> :
                                         x \in (j * k)..(j * k + k - 1),
                                         y \in (i * k + offset)..
                                               (i * k + offset + k - 1)}]
                                \in qr_points
                 /\ \A p \in qr_points : qr_text[p.i + 1][p.j + 1] = "1"

C7_Witness ==
    /\ Len(qr_text) = 3
    /\ \E p \in qr_points :
          /\ p.i = 2
          /\ p.j = 2
          /\ <<14, 14>> \in p.pix
    /\ Len(bitmaps) = 3
    /\ pc = "exit"
    /\ outcome = "returned"

\* C8: every content bitmap the renderer produces (text, QR code, barcode,
\* picture) is exactly as high as the label: _MAX_BYTES_PER_LINE * 8.
C8_ContentHeight ==
    \A k \in 1..Len(bitmaps) : bitmaps[k].height = MAX_BYTES_PER_LINE * 8

FileLive ==
    /\ lm # <<>>
    /\ handle = "open"
    /\ "open" \in ops
    /\ ops \cap USBOps = {}
    /\ lm[1] = [devout |-> "file", devin |-> "file", synwait |-> {}]

UsbLive ==
    /\ lm # <<>>
    /\ handle = "none"
    /\ "open" \notin ops
    /\ dev = "usbdev"
    /\ {"usb.core.find", "find_descriptor(OUT)", "find_descriptor(IN)"}
          \subseteq ops
    /\ lm[1] = [devout |-> "ep_out", devin |-> "ep_in", synwait |-> {64}]

\* C9: whenever the labeler has been constructed or printLabel invoked,
\* exactly one transport variant is live and fully resolved: the
\* FileTransport (node opened, IN and OUT the same handle, no synwait) or
\* the UsbTransport (device found, both endpoints resolved, synwait 64);
\* and once no USB device was found, or an endpoint lookup returned None and
\* the check of the endpoints has run, the run has ended with the
\* device-not-found error, no labeler was constructed and printLabel was
\* not invoked.
C9_OneResolvedTransport ==
    /\ ("printLabel" \in ops \/ lm # <<>> \/ pc = "print") =>
          /\ lm # <<>>
          /\ FileLive \/ UsbLive
          /\ ~(FileLive /\ UsbLive)
    /\ ((dev = "None" \/ devout = "None" \/ devin = "None")
        /\ pc # "endpoints_check") =>
          /\ pc = "exit"
          /\ outcome = "die: device not found"
          /\ lm = <<>>
          /\ ops \cap {"DymoLabeler", "printLabel"} = {}

C9_Witness ==
    /\ UsbLive
    /\ "printLabel" \in ops
    /\ printed # <<>>

\* C10: in a run with --preview, --preview-inverted or --imagemagick set,
\* no transport is selected or opened (no device-node lookup or open, no USB
\* operation, no labeler) and printLabel is never invoked; the transport
\* and print statements are reached only with all three flags unset.
C10_PreviewIsolation ==
    /\ (args.preview \/ args.preview_inverted \/ args.imagemagick) =>
          /\ ops \cap (USBOps \cup {"getDeviceFile", "open", "DymoLabeler",
                                    "printLabel"}) = {}
          /\ pc \notin TransportPcs
          /\ transport = <<"unasked", "", "unset", "unset", {}, "none",
                           "unset", -1, <<>>, <<>>>>
    /\ (pc \in TransportPcs
        \/ ops \cap (USBOps \cup {"getDeviceFile", "open", "DymoLabeler",
                                  "printLabel"}) # {}) =>
          (~args.preview /\ ~args.preview_inverted /\ ~args.imagemagick)

C10_Witness ==
    /\ args.imagemagick
    /\ ~args.preview
    /\ ~args.preview_inverted
    /\ pc = "exit"
    /\ outcome = "returned"
    /\ "show" \in ops
    /\ labelmatrix # <<>>

=============================================================================
